---------------------------- MODULE Spec2Model ----------------------------
(***************************************************************************)
(* A model of src/proxy.c: the forwarding HTTP proxy of proxy-lab.         *)
(*                                                                         *)
(* Spec      : the dispatcher, the per-connection workers running doit,    *)
(*             and the shared object cache.                                *)
(* SpecBuild : build_http_request as a line-by-line loop over the header   *)
(*             lines a client sends, for the claims about the request that *)
(*             is sent to the origin.                                      *)
(*                                                                         *)
(* Text the code inspects character by character (methods, versions,       *)
(* header lines) is a sequence of one-character strings.  cache.h/cache.c, *)
(* csapp.h and http_parser.h are not part of the sources: the cache is     *)
(* modelled from the specification (section 4.3), the parser and the I/O   *)
(* package are inputs and outcomes chosen nondeterministically.            *)
(***************************************************************************)
EXTENDS Integers, Sequences, FiniteSets, TLC

(***************************************************************************)
(* Bounds of the model.                                                    *)
(***************************************************************************)
\* connections the dispatcher accepts (one worker thread each)
MaxConns == 2
\* bytes an origin sends at most in one response
MaxResp == 4
\* bytes one rio_readnb call returns at most in the model (<= MAXLINE)
ChunkMax == 2
\* header lines a client sends at most (SpecBuild)
MaxHdrs == 3
\* accept calls that fail at most
MaxFails == 1

(***************************************************************************)
(* Program constants.  MAXLINE and MAXBUF are csapp.h's values.  The two   *)
(* cache constants come from cache.h; the model counts the cache in small  *)
(* units so that the boundary cases are reached.                           *)
(***************************************************************************)
MAXLINE == 8192
MAXBUF == 8192
MAX_OBJECT_SIZE == 3
MAX_CACHE_SIZE == 5

Workers == 1..MaxConns
\* the heap blocks main's malloc(sizeof(int)) can return
Cells == 1..(MaxConns + MaxFails)
URIs == {"u1", "u2"}
NoBody == <<"none">>

Min(a, b) == IF a < b THEN a ELSE b

(***************************************************************************)
(* C strings: strcasecmp, strncasecmp, strcmp.                             *)
(***************************************************************************)
Lower(c) ==
    CASE c = "A" -> "a" [] c = "B" -> "b" [] c = "C" -> "c" [] c = "D" -> "d"
      [] c = "E" -> "e" [] c = "F" -> "f" [] c = "G" -> "g" [] c = "H" -> "h"
      [] c = "I" -> "i" [] c = "J" -> "j" [] c = "K" -> "k" [] c = "L" -> "l"
      [] c = "M" -> "m" [] c = "N" -> "n" [] c = "O" -> "o" [] c = "P" -> "p"
      [] c = "Q" -> "q" [] c = "R" -> "r" [] c = "S" -> "s" [] c = "T" -> "t"
      [] c = "U" -> "u" [] c = "V" -> "v" [] c = "W" -> "w" [] c = "X" -> "x"
      [] c = "Y" -> "y" [] c = "Z" -> "z" [] OTHER -> c

LowerStr(s) == [i \in 1..Len(s) |-> Lower(s[i])]

Take(s, n) == SubSeq(s, 1, Min(n, Len(s)))

\* strcasecmp(s, t) == 0
StrCaseEq(s, t) == LowerStr(s) = LowerStr(t)

\* strncasecmp(s, t, n) == 0
StrNCaseEq(s, t, n) == LowerStr(Take(s, n)) = LowerStr(Take(t, n))

GET == <<"G", "E", "T">>
V10 == <<"1", ".", "0">>
V11 == <<"1", ".", "1">>

(***************************************************************************)
(* doit's two validation tests.                                            *)
(***************************************************************************)
MethodRejected(method) == ~StrCaseEq(method, GET)

VersionRejected(version) ==
    /\ ~StrNCaseEq(version, V10, Len(V10))
    /\ ~StrNCaseEq(version, V11, Len(V11))

(***************************************************************************)
(* clienterror.  The body is built with snprintf into body[MAXBUF] and the *)
(* headers into buf[MAXLINE]; either overflow makes the function return    *)
(* before it writes anything.  147 and 57 are the lengths of the two       *)
(* format strings without their conversions.                               *)
(***************************************************************************)
RECURSIVE Digits(_)
Digits(n) == IF n < 10 THEN 1 ELSE 1 + Digits(n \div 10)

BodyLen(causeLen, errnum, shortmsg, longmsg) ==
    147 + Len(errnum) + Len(shortmsg) + Len(longmsg) + causeLen

HeadLen(errnum, shortmsg, bodylen) ==
    57 + Len(errnum) + Len(shortmsg) + Digits(bodylen)

\* The error responses clienterror writes: none on overflow, else one, whose
\* body is written only when the write of the headers succeeded.
clienterror(causeLen, errnum, shortmsg, longmsg, io) ==
    LET bodylen == BodyLen(causeLen, errnum, shortmsg, longmsg)
        buflen == HeadLen(errnum, shortmsg, bodylen)
    IN  IF bodylen >= MAXBUF THEN <<>>
        ELSE IF buflen >= MAXLINE THEN <<>>
        ELSE <<[errnum |-> errnum, shortmsg |-> shortmsg,
                contentLength |-> bodylen,
                headers |-> io # "headers_fail",
                body |-> io = "ok"]>>

IOOutcomes == {"ok", "headers_fail", "body_fail"}

(***************************************************************************)
(* The requests a client sends, as the parser reports them: the parser     *)
(* state, the fields of a parsed request line, and strlen(buf).  A client  *)
(* that closes before sending a line leaves buf unset and the parser's     *)
(* answer arbitrary: one of these.                                         *)
(***************************************************************************)
LineLens == {16, MAXLINE - 1}

Methods == {GET, <<"g", "e", "t">>, <<"P", "O", "S", "T">>}

Versions == {V10, V11, <<"2", ".", "0">>}

Requests ==
    [state : {"ERROR"}, method : {<<>>}, version : {<<>>}, len : LineLens]
    \cup
    [state : {"REQUEST"}, method : Methods, version : Versions,
     len : LineLens]

NoRequest == [state |-> "NONE", method |-> <<>>, version |-> <<>>, len |-> 0]

\* Once the request is validated, method, version and the request line in
\* buf are never read again.
Validated == [state |-> "REQUEST", method |-> <<>>, version |-> <<>>,
              len |-> 0]

VARIABLES
    pc,             \* where each worker thread is
    req,            \* the request line each worker read, as parsed
    uri,            \* the URI doit retrieved from the parser
    errOut,         \* the error responses written to each client
    toClient,       \* the response bytes written to each client
    n,              \* doit's n after read_cache
    calls,          \* read_cache, build_http_request, open_clientfd,
                    \* write_cache: the calls each worker made, in order
    sent,           \* the request written to each origin and not yet
                    \* answered
    serverfd,       \* "none", "open", "failed", "closed"
    fromOrigin,     \* the bytes each worker read from its origin
    response,       \* the bytes copied into response[]
    response_size,
    readEnd,        \* how the read loop ended: "eof", "error", or "none"
    parserLive,     \* parser_new without parser_free yet
    connfd,         \* thread's local connfd: the descriptor it read from
                    \* *vargp, 0 before that
    fds,            \* the client descriptors accept returned, numbered in
                    \* the order of the accepts: "none", "open", "closed",
                    \* "badclose"
    vargp,          \* the block passed to each thread, 0 when none
    mem,            \* the int each heap block holds
    allocated,      \* the heap blocks malloc'ed and not freed
    fails,          \* accept calls that failed
    cache,          \* the object cache: entries, least recently used first
    readers,        \* the workers holding the cache's lock as readers
    writer,         \* the worker holding the cache's lock as writer, or 0
    snap,           \* the body a lookup found, until it is written to the
                    \* client
    stuck,          \* the worker is in a read or write that never returns
    recency,        \* the keys in the cache in the order of their last
                    \* access (insert or lookup hit), oldest first
    victims,        \* the keys the insert in progress has evicted
    fresh,          \* per URI: the body of the last relay that completed
                    \* within the size cap and was not evicted since
    hdrs,           \* SpecBuild: the header lines the client sends
    request_line,   \* SpecBuild: doit's request_line
    pos,            \* SpecBuild: lines read so far
    header_host,    \* SpecBuild: build_http_request's header_host
    other_header,   \* SpecBuild: build_http_request's other_header
    garbage,        \* SpecBuild: what other_header held on entry
    http_request,   \* SpecBuild: the request built
    bpc             \* SpecBuild: "loop", "done"

pipeVars == <<pc, req, uri, errOut, toClient, n, calls, sent, serverfd,
              fromOrigin, response, response_size, readEnd, parserLive,
              connfd, fds, vargp, mem, allocated, fails, cache, readers,
              writer, snap, stuck, recency, victims, fresh>>

buildVars == <<hdrs, request_line, pos, header_host, other_header, garbage, http_request,
               bpc>>

vars == <<pipeVars, buildVars>>


(***************************************************************************)
(* Header text.  A header name is spelled character by character; a value  *)
(* that the code never looks into is one element.                          *)
(***************************************************************************)
CRLF == <<"\r", "\n">>

header_user_agent ==
    <<"U", "s", "e", "r", "-", "A", "g", "e", "n", "t", ":", " ",
      "Mozilla/5.0 (X11; Linux x86_64; rv:3.10.0) Gecko/20191101 Firefox/63.0.1",
      "\r", "\n">>

header_connection ==
    <<"C", "o", "n", "n", "e", "c", "t", "i", "o", "n", ":", " ", "close",
    "\r", "\n">>

header_proxy_connection ==
    <<"P", "r", "o", "x", "y", "-", "C", "o", "n", "n", "e", "c", "t", "i",
    "o", "n", ":", " ", "close", "\r", "\n">>

\* The parser's HOST:PORT and PATH of a URI, as one element each.
HostPort(u) == IF u = "u1" THEN "h1:80" ELSE "h2:8080"

Path(u) == IF u = "u1" THEN "/p1" ELSE "/p2"

\* sprintf(request_line, "GET %s HTTP/1.0\r\n", path)
RequestLine(u) ==
    <<"G", "E", "T", " ", Path(u), " ", "H", "T", "T", "P", "/", "1", ".",
      "0", "\r", "\n">>

\* sprintf(header_host, "Host: %s:%s\r\n", host, port)
InjectedHost(u) ==
    <<"H", "o", "s", "t", ":", " ", HostPort(u), "\r", "\n">>

\* The header lines a client may send (each ends with CRLF), and the blank
\* line that ends its headers.
ClientHost == <<"H", "o", "s", "t", ":", " ", "client.example", "\r", "\n">>
ClientHostLower == <<"h", "o", "s", "t", ":", " ", "%", "s", "\r", "\n">>
ClientHostname ==
    <<"H", "o", "s", "t", "n", "a", "m", "e", ":", " ", "n", "\r", "\n">>
ClientUserAgent ==
    <<"U", "s", "e", "r", "-", "A", "g", "e", "n", "t", ":", " ", "curl",
    "\r", "\n">>
ClientConnection ==
    <<"C", "o", "n", "n", "e", "c", "t", "i", "o", "n", ":", " ",
      "keep-alive", "\r", "\n">>
ClientConnectionInfo ==
    <<"C", "o", "n", "n", "e", "c", "t", "i", "o", "n", "-", "I", "n", "f",
    "o", ":", " ", "i", "\r", "\n">>
ClientProxyConnection ==
    <<"P", "r", "o", "x", "y", "-", "C", "o", "n", "n", "e", "c", "t", "i",
    "o", "n", ":", " ", "keep-alive", "\r", "\n">>
ClientAccept == <<"A", "c", "c", "e", "p", "t", ":", " ", "*/*", "\r", "\n">>
ClientCookie == <<"C", "o", "o", "k", "i", "e", ":", " ", "c", "\r", "\n">>

HeaderLines ==
    {ClientHost, ClientHostLower, ClientHostname, ClientUserAgent,
     ClientConnection, ClientConnectionInfo, ClientProxyConnection,
     ClientAccept, ClientCookie, CRLF}

\* What other_header[] may hold on entry: it is never initialised, so the
\* bytes before its first NUL are whatever the stack held.
Garbage ==
    {<<>>, <<"?">>, <<"H", "o", "s", "t", ":", " ", "stack.example", "\r",
    "\n">>}

\* What a conversion in a format string without arguments may print.
Junk == {<<>>, <<"?">>}

(***************************************************************************)
(* build_http_request.                                                     *)
(***************************************************************************)
\* sprintf(header_host, buf): buf is the format.  "%%" prints "%"; any
\* other conversion has no argument to print and prints junk.
RECURSIVE Sprintf(_, _)
Sprintf(fmt, junk) ==
    IF fmt = <<>> THEN <<>>
    ELSE IF Head(fmt) # "%" THEN <<Head(fmt)>> \o Sprintf(Tail(fmt), junk)
    ELSE IF Len(fmt) = 1 THEN junk
    ELSE IF fmt[2] = "%" THEN <<"%">> \o Sprintf(Tail(Tail(fmt)), junk)
    ELSE junk \o Sprintf(Tail(Tail(fmt)), junk)

\* IsHost with strncmp in place of strncasecmp.
IsHost_CaseSensitive(line) == Take(line, 4) = <<"H", "o", "s", "t">>

\* !strncasecmp(buf, "Host", strlen("Host"))
IsHost(line) == StrNCaseEq(line, <<"H", "o", "s", "t">>, 4)

\* the three strncasecmp tests that keep a line out of other_header
IsReplaced(line) ==
    \/ StrNCaseEq(line, Take(header_user_agent, 10), 10)
    \/ StrNCaseEq(line, Take(header_connection, 10), 10)
    \/ StrNCaseEq(line, Take(header_proxy_connection, 16), 16)

\* One iteration of the while loop on a line that is not the blank line.
HeaderStep(st, line, junk) ==
    IF IsHost(line) THEN [st EXCEPT !.host = Sprintf(line, junk)]
    ELSE IF ~IsReplaced(line) THEN [st EXCEPT !.other = @ \o line]
    ELSE st

\* The loop ends at the blank line or when the client's lines end.
LoopEnds(lines, i) == IF i > Len(lines) THEN TRUE ELSE lines[i] = CRLF

RECURSIVE HeaderLoop(_, _, _, _)
HeaderLoop(lines, i, st, junk) ==
    IF LoopEnds(lines, i) THEN st
    ELSE HeaderLoop(lines, i + 1, HeaderStep(st, lines[i], junk), junk)

\* sprintf(http_request, "%s%s%s%s%s%s\r\n", ...)
Assemble(reqline, host, other) ==
    reqline \o host \o header_user_agent \o header_connection
        \o header_proxy_connection \o other \o CRLF

build_http_request(lines, reqline, host, other, junk) ==
    LET st == HeaderLoop(lines, 1, [host |-> host, other |-> other], junk)
    IN  Assemble(reqline, st.host, st.other)

(***************************************************************************)
(* The object cache (cache.c, modelled from section 4.3 of the             *)
(* specification): a list of entries, least recently used first.  An entry *)
(* has a key, a size and a body; its body is empty from the moment an       *)
(* insert put it into the list until the insert has copied the bytes.       *)
(***************************************************************************)
Entry(u, data, size) == [key |-> u, body |-> data, size |-> size]

RECURSIVE TotalSize(_)
TotalSize(c) == IF c = <<>> THEN 0 ELSE Head(c).size + TotalSize(Tail(c))

Keys(c) == {c[i].key : i \in 1..Len(c)}

Find(c, u) ==
    IF u \in Keys(c) THEN CHOOSE i \in 1..Len(c) : c[i].key = u ELSE 0

Remove(c, i) == SubSeq(c, 1, i - 1) \o SubSeq(c, i + 1, Len(c))

RECURSIVE Evict(_, _)
Evict(c, size) ==
    IF c # <<>> /\ TotalSize(c) + size > MAX_CACHE_SIZE
    THEN Evict(Tail(c), size) ELSE c

\* A lookup whose hit leaves the entry where it is.
read_cache_NoTouch(c, u) ==
    LET i == Find(c, u)
    IN  IF i = 0 THEN [cache |-> c, out |-> <<>>, n |-> 0]
        ELSE [cache |-> c, out |-> c[i].body, n |-> c[i].size]

\* read_cache(uri, fd): on a hit the body is written to fd, the entry
\* becomes the most recently used one, and the number of bytes is returned;
\* on a miss nothing is written and 0 is returned.
read_cache(c, u) ==
    LET i == Find(c, u)
    IN  IF i = 0 THEN [cache |-> c, out |-> <<>>, n |-> 0]
        ELSE [cache |-> Remove(c, i) \o <<c[i]>>, out |-> c[i].body,
              n |-> c[i].size]

\* write_cache(uri, size): a no-op for an object over the cap or over
\* the whole budget; else the old entry of uri is removed, least recently
\* used entries are evicted until the object fits, and it is stored.
Declined(size) == size > MAX_OBJECT_SIZE \/ size > MAX_CACHE_SIZE

\* An eviction pass that removes the old entry of u and nothing else.
MakeRoom_NoEvict(c, u, size) ==
    LET i == Find(c, u)
    IN  IF i = 0 THEN c ELSE Remove(c, i)

\* The eviction pass of an insert: the old entry of u is removed, then least
\* recently used entries, until an object of the given size fits.
MakeRoom(c, u, size) ==
    LET i == Find(c, u)
        c1 == IF i = 0 THEN c ELSE Remove(c, i)
    IN  Evict(c1, size)

write_cache(c, u, data, size) ==
    IF Declined(size) THEN c
    ELSE MakeRoom(c, u, size) \o <<Entry(u, Take(data, size), size)>>

\* The readers-writer lock of the cache: a reader enters when no writer
\* holds the lock, a writer when nobody holds it.
CanRead_Always(wr) == TRUE

CanRead(wr) == wr = 0

CanWrite(rd, wr) == rd = {} /\ wr = 0

(***************************************************************************)
(* doit, step by step.                                                     *)
(***************************************************************************)
\* Validate without the return after the 501 response.
Validate_NoReturn(r, io) ==
    IF r.state = "ERROR"
    THEN [out |-> clienterror(r.len, "400", "Bad Request",
                    "Tiny could not handle this request (ERROR)", io),
          pc |-> "ret"]
    ELSE IF MethodRejected(r.method)
    THEN [out |-> clienterror(r.len, "501", "Not implemented",
                    "Tiny does not implement this method", io),
          pc |-> "lookup"]
    ELSE IF VersionRejected(r.version)
    THEN [out |-> clienterror(r.len, "400", "Bad Request",
                    "Tiny could not handle this request (HTTP_VERSION)", io),
          pc |-> "ret"]
    ELSE [out |-> <<>>, pc |-> "lookup"]

\* Lines 161-188: read and parse the request line, validate method and
\* version.  The result is the error responses written and where doit goes.
Validate(r, io) ==
    IF r.state = "ERROR"
    THEN [out |-> clienterror(r.len, "400", "Bad Request",
                    "Tiny could not handle this request (ERROR)", io),
          pc |-> "ret"]
    ELSE IF MethodRejected(r.method)
    THEN [out |-> clienterror(r.len, "501", "Not implemented",
                    "Tiny does not implement this method", io),
          pc |-> "ret"]
    ELSE IF VersionRejected(r.version)
    THEN [out |-> clienterror(r.len, "400", "Bad Request",
                    "Tiny could not handle this request (HTTP_VERSION)", io),
          pc |-> "ret"]
    ELSE [out |-> <<>>, pc |-> "lookup"]

\* IsHit with the test written n > 1.
IsHit_Off(ret) == ret > 1

\* line 192: (n = read_cache(uri, fd)) > 0
IsHit(ret) == ret > 0

\* A loop that copies every chunk.
Accumulates_Always(size) == TRUE

\* line 227: the chunk is copied while the running total is under the cap
Accumulates(size) == size < MAX_OBJECT_SIZE

\* line 234: the object is handed to write_cache
Cacheable(size) == size < MAX_OBJECT_SIZE

\* Relayed with the write moved under the size test of line 227.
Relayed_Capped(chunk, size) ==
    IF size < MAX_OBJECT_SIZE THEN chunk ELSE <<>>

\* line 222: what is written to the client of the chunk just read
Relayed(chunk, size) == chunk

\* AfterConnect without the return of line 210.
AfterConnect_NoReturn(ok) == "relay"

\* lines 207-211: serverfd < 0 ends the handler, else it goes on to send the
\* request and relay the response
AfterConnect(ok) == IF ok THEN "relay" ELSE "ret"

\* The header lines and stack contents the workers of Spec meet.
SampleHdrs == {<<ClientHost, ClientAccept>>}

SampleGarbage == {<<>>, <<"?">>}

\* The origin serves each URI from a fixed page of bytes; a response is a
\* prefix of the page, of any length up to MaxResp, cut into chunks of any
\* lengths up to ChunkMax.
PageByte(u, i) == IF (i + (IF u = "u1" THEN 0 ELSE 1)) % 3 = 0 THEN "x" ELSE "y"

Chunks(u, got) ==
    {[i \in 1..k |-> PageByte(u, got + i)] :
        k \in 1..Min(ChunkMax, MaxResp - got)}

\* malloc returning the block it returned before, as if main passed the
\* address of one variable to every thread.
malloc_Same(used) == {1}

\* line 290, malloc(sizeof(int)): any block that is not in use
malloc(used) == Cells \ used

\* close(fd): a descriptor that is open is closed; closing anything else is
\* an error (EBADF) or closes a descriptor someone else owns.
close_Nothing(st) == st

close(st) == IF st = "open" THEN "closed" ELSE "badclose"

\* main waiting for the thread it created before to end, as if it joined it.
MainWaitsFor_Join(p, w) == \E v \in Workers : v < w /\ p[v] # "done"

\* lines 301-302: after pthread_create main goes back to line 288; it joins
\* no thread and waits for nothing a worker does.
MainWaitsFor(p, w) == FALSE

\* main, lines 288-302, one turn of the loop in which accept succeeds: the
\* descriptor of the w-th connection is stored in a new block and a thread
\* is created with the block as its argument.
Accept(w) ==
    /\ pc[w] = "idle"
    /\ \A v \in Workers : v < w => pc[v] # "idle"
    /\ ~MainWaitsFor(pc, w)
    /\ \E c \in malloc(allocated) :
          /\ allocated' = allocated \cup {c}
          /\ mem' = [mem EXCEPT ![c] = w]
          /\ vargp' = [vargp EXCEPT ![w] = c]
    /\ fds' = [fds EXCEPT ![w] = "open"]
    /\ pc' = [pc EXCEPT ![w] = "start"]
    /\ UNCHANGED <<req, uri, errOut, toClient, n, calls, sent, serverfd,
                   fromOrigin, response, response_size, readEnd, parserLive,
                   connfd, fails, cache, fresh, readers,
                   writer, snap, stuck, recency,
                   victims, buildVars>>

\* main, lines 290-296, one turn of the loop in which accept fails: -1 is
\* stored in the new block, the error is logged and the loop continues.  The
\* block is not freed.
AcceptFail ==
    /\ fails < MaxFails
    /\ \E c \in malloc(allocated) :
          /\ allocated' = allocated \cup {c}
          /\ mem' = [mem EXCEPT ![c] = -1]
    /\ fails' = fails + 1
    /\ UNCHANGED <<pc, req, uri, errOut, toClient, n, calls, sent, serverfd,
                   fromOrigin, response, response_size, readEnd, parserLive,
                   connfd, fds, vargp, cache, fresh, readers,
                   writer, snap, stuck, recency,
                   victims, buildVars>>

\* thread, lines 248-253: the thread reads its descriptor from the block,
\* detaches, frees the block and calls doit.
ThreadStart(w) ==
    /\ pc[w] = "start"
    /\ ~stuck[w]
    /\ connfd' = [connfd EXCEPT ![w] = mem[vargp[w]]]
    /\ allocated' = allocated \ {vargp[w]}
    /\ mem' = [mem EXCEPT ![vargp[w]] = 0]
    /\ vargp' = [vargp EXCEPT ![w] = 0]
    /\ pc' = [pc EXCEPT ![w] = "doit"]
    /\ UNCHANGED <<req, uri, errOut, toClient, n, calls, sent, serverfd,
                   fromOrigin, response, response_size, readEnd, parserLive,
                   fds, fails, cache, fresh, readers,
                   writer, snap, stuck, recency,
                   victims, buildVars>>

DoitRequest(w) ==
    /\ pc[w] = "doit"
    /\ ~stuck[w]
    /\ \E r \in Requests, io \in IOOutcomes :
          LET v == Validate(r, io)
          IN  /\ req' = [req EXCEPT ![w] = r]
              /\ errOut' = [errOut EXCEPT ![w] = @ \o v.out]
              /\ pc' = [pc EXCEPT ![w] = v.pc]
    /\ parserLive' = [parserLive EXCEPT ![w] = TRUE]
    /\ UNCHANGED <<uri, toClient, n, calls, sent, serverfd, fromOrigin,
                   response, response_size, readEnd, connfd, fds, vargp, mem,
                   allocated, fails, cache, fresh, readers,
                   writer, snap, stuck, recency,
                   victims, buildVars>>

\* The order of last access: a key that is accessed becomes the newest one,
\* keys that leave the cache are forgotten.
Touch(rec, u) ==
    LET Other(k) == k # u IN SelectSeq(rec, Other) \o <<u>>

Forget(rec, gone) ==
    LET Stays(k) == k \notin gone IN SelectSeq(rec, Stays)

\* The URIs an insert took out of the cache to make room.
Evicted(c, c2, u) == (Keys(c) \ Keys(c2)) \ {u}

\* read_cache keeping the lock after it copied the body.
RdUnlock_Never(rd, w) == rd

\* read_cache gives the lock back when it has copied the body, before it
\* writes to the client.
RdUnlock(rd, w) == rd \ {w}

\* lines 191-192: the URI is retrieved and read_cache(uri, fd) is called.
DoitLookup(w) ==
    /\ pc[w] = "lookup"
    /\ ~stuck[w]
    /\ \E u \in URIs : uri' = [uri EXCEPT ![w] = u]
    /\ calls' = [calls EXCEPT ![w] = Append(@, "read_cache")]
    /\ req' = [req EXCEPT ![w] = Validated]
    /\ pc' = [pc EXCEPT ![w] = "rd_lock"]
    /\ UNCHANGED <<errOut, toClient, n, sent, serverfd, fromOrigin, response,
                   response_size, readEnd, parserLive, connfd, fds, vargp,
                   mem, allocated, fails, cache, readers, writer, snap, stuck,
                   recency, fresh, victims, buildVars>>

\* read_cache waits until it holds the cache's lock as a reader.
RdLock(w) ==
    /\ pc[w] = "rd_lock"
    /\ ~stuck[w]
    /\ CanRead(writer)
    /\ readers' = readers \cup {w}
    /\ pc' = [pc EXCEPT ![w] = "rd_find"]
    /\ UNCHANGED <<req, uri, errOut, toClient, n, calls, sent, serverfd,
                   fromOrigin, response, response_size, readEnd, parserLive,
                   connfd, fds, vargp, mem, allocated, fails, cache, writer,
                   snap, stuck, recency, fresh, victims, buildVars>>

\* read_cache under the lock: the entry of the URI is looked up; on a hit
\* its body is copied and the entry becomes the most recently used one; the
\* lock is released.  On a miss read_cache returns 0 (line 192).
RdFind(w) ==
    /\ pc[w] = "rd_find"
    /\ ~stuck[w]
    /\ LET r == read_cache(cache, uri[w])
       IN  /\ cache' = r.cache
           /\ IF Find(cache, uri[w]) # 0
              THEN /\ snap' = [snap EXCEPT ![w] = r.out]
                   /\ n' = n
                   /\ recency' = Touch(recency, uri[w])
                   /\ pc' = [pc EXCEPT ![w] = "rd_write"]
              ELSE /\ snap' = snap
                   /\ recency' = recency
                   /\ n' = [n EXCEPT ![w] = r.n]
                   /\ pc' = [pc EXCEPT
                         ![w] = IF IsHit(r.n) THEN "ret" ELSE "forward"]
    /\ readers' = RdUnlock(readers, w)
    /\ UNCHANGED <<req, uri, errOut, toClient, calls, sent, serverfd,
                   fromOrigin, response, response_size, readEnd, parserLive,
                   connfd, fds, vargp, mem, allocated, fails, writer, stuck,
                   fresh, victims, buildVars>>

\* read_cache after the lock: the copied body is written to the client and
\* its size returned; line 192 ends the handler when that is positive.
RdWrite(w) ==
    /\ pc[w] = "rd_write"
    /\ ~stuck[w]
    /\ toClient' = [toClient EXCEPT ![w] = @ \o snap[w]]
    /\ n' = [n EXCEPT ![w] = Len(snap[w])]
    /\ snap' = [snap EXCEPT ![w] = <<>>]
    /\ pc' = [pc EXCEPT
          ![w] = IF IsHit(Len(snap[w])) THEN "ret" ELSE "forward"]
    /\ UNCHANGED <<req, uri, errOut, calls, sent, serverfd, fromOrigin,
                   response, response_size, readEnd, parserLive, connfd, fds,
                   vargp, mem, allocated, fails, cache, readers, writer,
                   stuck, recency, fresh, victims, buildVars>>

\* lines 196-215: build the request, connect to the origin, send the request
DoitForward(w) ==
    /\ pc[w] = "forward"
    /\ ~stuck[w]
    /\ \E lines \in SampleHdrs, g \in SampleGarbage, junk \in Junk,
          ok \in BOOLEAN :
          LET request == build_http_request(lines, RequestLine(uri[w]),
                             InjectedHost(uri[w]), g, junk)
          IN  IF ok
              THEN /\ serverfd' = [serverfd EXCEPT ![w] = "open"]
                   /\ sent' = [sent EXCEPT ![w] = request]
                   /\ pc' = [pc EXCEPT ![w] = AfterConnect(ok)]
              ELSE /\ serverfd' = [serverfd EXCEPT ![w] = "failed"]
                   /\ sent' = sent
                   /\ pc' = [pc EXCEPT ![w] = AfterConnect(ok)]
    /\ calls' = [calls EXCEPT
                   ![w] = @ \o <<"build_http_request", "open_clientfd">>]
    /\ UNCHANGED <<req, uri, errOut, toClient, n, fromOrigin, response,
                   response_size, readEnd, parserLive, connfd, fds, vargp,
                   mem, allocated, fails, cache, fresh, readers,
                   writer, snap, stuck, recency,
                   victims, buildVars>>

\* One iteration of the read loop, lines 221-231: rio_readnb returns a
\* chunk, which is written to the client and, under the cap, copied.
DoitRelay(w) ==
    /\ pc[w] = "relay"
    /\ ~stuck[w]
    /\ \E chunk \in Chunks(uri[w], Len(fromOrigin[w])) :
          LET size == response_size[w] + Len(chunk)
          IN  /\ fromOrigin' = [fromOrigin EXCEPT ![w] = @ \o chunk]
              /\ toClient' = [toClient EXCEPT
                     ![w] = @ \o Relayed(chunk, size)]
              /\ response_size' = [response_size EXCEPT ![w] = size]
              /\ response' = [response EXCEPT
                     ![w] = IF Accumulates(size) THEN @ \o chunk ELSE @]
    /\ sent' = [sent EXCEPT ![w] = <<>>]
    /\ UNCHANGED <<pc, req, uri, errOut, n, calls, serverfd, readEnd,
                   parserLive, connfd, fds, vargp, mem, allocated, fails,
                   cache, fresh, readers,
                   writer, snap, stuck, recency,
                   victims, buildVars>>

\* lines 238-240: the parser is freed, the origin connection closed, and
\* doit returns.  (fresh: a relay that ended with the origin closing and at
\* most MAX_OBJECT_SIZE bytes is the URI's last complete response.)
DoitCleanup(w, how) ==
    /\ parserLive' = [parserLive EXCEPT ![w] = FALSE]
    /\ serverfd' = [serverfd EXCEPT ![w] = close(@)]
    /\ pc' = [pc EXCEPT ![w] = "ret"]
    /\ fresh' = [u \in URIs |->
          IF u = uri[w] /\ how = "eof"
                /\ Len(fromOrigin[w]) <= MAX_OBJECT_SIZE
          THEN fromOrigin[w] ELSE fresh[u]]

\* The end of the read loop and lines 233-236: rio_readnb returns 0 (the
\* origin closed) or -1 (a read error); under the size test the object is
\* handed to write_cache, else doit goes on to line 238.
DoitStore(w) ==
    /\ pc[w] = "relay"
    /\ ~stuck[w]
    /\ \E how \in {"eof", "error"} :
          /\ readEnd' = [readEnd EXCEPT ![w] = how]
          /\ IF Cacheable(response_size[w])
             THEN /\ calls' = [calls EXCEPT ![w] = Append(@, "write_cache")]
                  /\ pc' = [pc EXCEPT ![w] = "wr_lock"]
                  /\ UNCHANGED <<parserLive, serverfd, fresh>>
             ELSE /\ calls' = calls
                  /\ DoitCleanup(w, how)
    /\ sent' = [sent EXCEPT ![w] = <<>>]
    /\ UNCHANGED <<req, uri, errOut, toClient, n, fromOrigin, response,
                   response_size, connfd, fds, vargp, mem, allocated, fails,
                   cache, readers, writer, snap, stuck, recency,
                   victims, buildVars>>

\* write_cache(uri, response, response_size) is entered: an object that is
\* declined returns at once; else the insert waits until it holds the
\* cache's lock as the writer.
WrLock(w) ==
    /\ pc[w] = "wr_lock"
    /\ ~stuck[w]
    /\ IF Declined(response_size[w])
       THEN /\ DoitCleanup(w, readEnd[w])
            /\ writer' = writer
       ELSE /\ CanWrite(readers, writer)
            /\ writer' = w
            /\ pc' = [pc EXCEPT ![w] = "wr_evict"]
            /\ UNCHANGED <<parserLive, serverfd, fresh>>
    /\ UNCHANGED <<req, uri, errOut, toClient, n, calls, sent, fromOrigin,
                   response, response_size, readEnd, connfd, fds, vargp, mem,
                   allocated, fails, cache, readers, snap, stuck, recency,
                   victims, buildVars>>

\* write_cache under the lock: the eviction pass, and the new entry is put
\* into the list, its bytes not yet copied.
WrEvict(w) ==
    /\ pc[w] = "wr_evict"
    /\ ~stuck[w]
    /\ LET c2 == MakeRoom(cache, uri[w], response_size[w])
       IN  /\ cache' = c2 \o <<Entry(uri[w], <<>>, response_size[w])>>
           /\ fresh' = [u \in URIs |->
                 IF u \in Evicted(cache, c2, uri[w]) THEN NoBody
                 ELSE fresh[u]]
           /\ recency' = Forget(recency, Evicted(cache, c2, uri[w]))
           /\ victims' = Evicted(cache, c2, uri[w])
    /\ pc' = [pc EXCEPT ![w] = "wr_store"]
    /\ UNCHANGED <<req, uri, errOut, toClient, n, calls, sent, serverfd,
                   fromOrigin, response, response_size, readEnd, parserLive,
                   connfd, fds, vargp, mem, allocated, fails, readers, writer,
                   snap, stuck, buildVars>>

\* write_cache under the lock: the bytes are copied, the entry is the most
\* recently used one, and the lock is released; doit goes on to line 238.
WrStore(w) ==
    /\ pc[w] = "wr_store"
    /\ ~stuck[w]
    /\ cache' = write_cache(cache, uri[w], response[w], response_size[w])
    /\ recency' = Touch(recency, uri[w])
    /\ victims' = {}
    /\ writer' = 0
    /\ DoitCleanup(w, readEnd[w])
    /\ UNCHANGED <<req, uri, errOut, toClient, n, calls, sent, fromOrigin,
                   response, response_size, readEnd, connfd, fds, vargp, mem,
                   allocated, fails, readers, snap, stuck, buildVars>>

\* thread, lines 254-255: close(connfd) after doit returned, and the thread
\* ends.  The connection's streams and the thread's locals end with it.
ThreadClose(w) ==
    /\ pc[w] = "ret"
    /\ ~stuck[w]
    /\ fds' = IF connfd[w] \in DOMAIN fds
              THEN [fds EXCEPT ![connfd[w]] = close(@)]
              ELSE fds
    /\ pc' = [pc EXCEPT ![w] = "done"]
    /\ req' = [req EXCEPT ![w] = NoRequest]
    /\ uri' = [uri EXCEPT ![w] = "u1"]
    /\ errOut' = [errOut EXCEPT ![w] = <<>>]
    /\ toClient' = [toClient EXCEPT ![w] = <<>>]
    /\ n' = [n EXCEPT ![w] = 0]
    /\ calls' = [calls EXCEPT ![w] = <<>>]
    /\ fromOrigin' = [fromOrigin EXCEPT ![w] = <<>>]
    /\ response' = [response EXCEPT ![w] = <<>>]
    /\ response_size' = [response_size EXCEPT ![w] = 0]
    /\ readEnd' = [readEnd EXCEPT ![w] = "none"]
    /\ serverfd' = [serverfd EXCEPT ![w] = "none"]
    /\ UNCHANGED <<sent, parserLive, connfd, vargp, mem, allocated, fails,
                   cache, fresh, readers,
                   writer, snap, stuck, recency,
                   victims, buildVars>>

\* Where a worker is inside a read from or a write to its client or its
\* origin: line 163 (and the writes of clienterror), the write inside
\* read_cache, lines 204-215, and the read loop.
IOPoints == {"doit", "rd_write", "forward", "relay"}

\* The peer of a worker stops reading or sending for good: the worker's
\* read or write never returns.
Block(w) ==
    /\ pc[w] \in IOPoints
    /\ ~stuck[w]
    /\ stuck' = [stuck EXCEPT ![w] = TRUE]
    /\ UNCHANGED <<pc, req, uri, errOut, toClient, n, calls, sent, serverfd,
                   fromOrigin, response, response_size, readEnd, parserLive,
                   connfd, fds, vargp, mem, allocated, fails, cache, readers,
                   writer, snap, recency,
                   fresh, victims, buildVars>>

BuildIdle ==
    /\ hdrs = <<>>
    /\ request_line = <<>>
    /\ pos = 0
    /\ header_host = <<>>
    /\ other_header = <<>>
    /\ garbage = <<>>
    /\ http_request = <<>>
    /\ bpc = "off"

PipeInit ==
    /\ pc = [w \in Workers |-> "idle"]
    /\ req = [w \in Workers |-> NoRequest]
    /\ uri = [w \in Workers |-> "u1"]
    /\ errOut = [w \in Workers |-> <<>>]
    /\ toClient = [w \in Workers |-> <<>>]
    /\ n = [w \in Workers |-> 0]
    /\ calls = [w \in Workers |-> <<>>]
    /\ sent = [w \in Workers |-> <<>>]
    /\ serverfd = [w \in Workers |-> "none"]
    /\ fromOrigin = [w \in Workers |-> <<>>]
    /\ response = [w \in Workers |-> <<>>]
    /\ response_size = [w \in Workers |-> 0]
    /\ readEnd = [w \in Workers |-> "none"]
    /\ parserLive = [w \in Workers |-> FALSE]
    /\ connfd = [w \in Workers |-> 0]
    /\ fds = [k \in Workers |-> "none"]
    /\ vargp = [w \in Workers |-> 0]
    /\ mem = [c \in Cells |-> 0]
    /\ allocated = {}
    /\ fails = 0
    /\ cache = <<>>
    /\ readers = {}
    /\ writer = 0
    /\ snap = [w \in Workers |-> <<>>]
    /\ stuck = [w \in Workers |-> FALSE]
    /\ recency = <<>>
    /\ victims = {}
    /\ fresh = [u \in URIs |-> NoBody]

Init == PipeInit /\ BuildIdle

\* The steps of main's loop.
Main == AcceptFail \/ \E w \in Workers : Accept(w)

\* The steps of the thread of worker w.
Worker(w) ==
    \/ ThreadStart(w)
    \/ DoitRequest(w)
    \/ DoitLookup(w)
    \/ RdLock(w)
    \/ RdFind(w)
    \/ RdWrite(w)
    \/ DoitForward(w)
    \/ DoitRelay(w)
    \/ DoitStore(w)
    \/ WrLock(w)
    \/ WrEvict(w)
    \/ WrStore(w)
    \/ ThreadClose(w)

Next ==
    \/ Main
    \/ \E w \in Workers : Worker(w) \/ Block(w)

Spec == Init /\ [][Next]_vars

\* The proxy after earlier connections were served and their threads ended:
\* the cache is empty or holds a response that one of them stored.
WarmCaches ==
    {<<>>} \cup
    {<<Entry("u1", [i \in 1..k |-> PageByte("u1", i)], k)>> :
        k \in 1..(MAX_OBJECT_SIZE - 1)}

WarmInit ==
    /\ BuildIdle
    /\ \E c \in WarmCaches :
          /\ cache = c
          /\ fresh = [u \in URIs |->
                IF c # <<>> /\ u = "u1" THEN c[1].body ELSE NoBody]
    /\ pc = [w \in Workers |-> "idle"]
    /\ req = [w \in Workers |-> NoRequest]
    /\ uri = [w \in Workers |-> "u1"]
    /\ errOut = [w \in Workers |-> <<>>]
    /\ toClient = [w \in Workers |-> <<>>]
    /\ n = [w \in Workers |-> 0]
    /\ calls = [w \in Workers |-> <<>>]
    /\ sent = [w \in Workers |-> <<>>]
    /\ serverfd = [w \in Workers |-> "none"]
    /\ fromOrigin = [w \in Workers |-> <<>>]
    /\ response = [w \in Workers |-> <<>>]
    /\ response_size = [w \in Workers |-> 0]
    /\ readEnd = [w \in Workers |-> "none"]
    /\ parserLive = [w \in Workers |-> FALSE]
    /\ connfd = [w \in Workers |-> 0]
    /\ fds = [k \in Workers |-> "none"]
    /\ vargp = [w \in Workers |-> 0]
    /\ mem = [c \in Cells |-> 0]
    /\ allocated = {}
    /\ fails = 0
    /\ readers = {}
    /\ writer = 0
    /\ snap = [w \in Workers |-> <<>>]
    /\ stuck = [w \in Workers |-> FALSE]
    /\ recency = [i \in 1..Len(cache) |-> cache[i].key]
    /\ victims = {}

\* Fair scheduling of the threads: a thread that is not stuck and can take a
\* step eventually takes one.  Nothing is assumed about clients connecting
\* or about a peer that stopped answering.
SpecLive == Spec /\ \A w \in Workers : WF_vars(Worker(w))

SpecWarm ==
    WarmInit /\ [][Next]_vars /\ \A w \in Workers : WF_vars(Worker(w))

(***************************************************************************)
(* SpecCache: the cache alone.  Each thread calls read_cache and           *)
(* write_cache again and again, as doit does at lines 192 and 235, with    *)
(* any key and any object; the calls of the threads interleave.            *)
(***************************************************************************)
CacheKeys == URIs \cup {"u3"}

\* The objects handed to write_cache for a key: one byte, MAX_OBJECT_SIZE
\* bytes, and one byte more than that.
CacheData(u) ==
    {[i \in 1..k |-> PageByte(u, i)] :
        k \in {1, MAX_OBJECT_SIZE, MAX_OBJECT_SIZE + 1}}

\* doit arrives at line 192 with some URI, or at line 235 with some URI and
\* some object.
CacheCall(w) ==
    /\ pc[w] \in {"idle", "forward", "ret"}
    /\ \E u \in CacheKeys :
          /\ uri' = [uri EXCEPT ![w] = u]
          /\ \/ /\ pc' = [pc EXCEPT ![w] = "rd_lock"]
                /\ response' = [response EXCEPT ![w] = <<>>]
                /\ response_size' = [response_size EXCEPT ![w] = 0]
                /\ fromOrigin' = [fromOrigin EXCEPT ![w] = <<>>]
                /\ readEnd' = [readEnd EXCEPT ![w] = "none"]
                /\ serverfd' = [serverfd EXCEPT ![w] = "none"]
             \/ \E data \in CacheData(u) :
                /\ pc' = [pc EXCEPT ![w] = "wr_lock"]
                /\ response' = [response EXCEPT ![w] = data]
                /\ response_size' = [response_size EXCEPT ![w] = Len(data)]
                /\ fromOrigin' = [fromOrigin EXCEPT ![w] = data]
                /\ readEnd' = [readEnd EXCEPT ![w] = "eof"]
                /\ serverfd' = [serverfd EXCEPT ![w] = "open"]
    /\ toClient' = [toClient EXCEPT ![w] = <<>>]
    /\ n' = [n EXCEPT ![w] = 0]
    /\ parserLive' = [parserLive EXCEPT ![w] = TRUE]
    /\ UNCHANGED <<req, errOut, calls, sent, connfd, fds, vargp, mem,
                   allocated, fails, cache, readers, writer, snap, stuck,
                   recency, victims, fresh, buildVars>>

CacheNext ==
    \E w \in Workers :
        \/ CacheCall(w)
        \/ RdLock(w)
        \/ RdFind(w)
        \/ RdWrite(w)
        \/ WrLock(w)
        \/ WrEvict(w)
        \/ WrStore(w)

SpecCache == Init /\ [][CacheNext]_vars

(***************************************************************************)
(* SpecBuild: build_http_request alone, one header line per step, on every *)
(* sequence of at most MaxHdrs client lines.                               *)
(***************************************************************************)
HeaderInputs == UNION {[1..k -> HeaderLines] : k \in 0..MaxHdrs}

\* doit, lines 201-204: request_line and header_host are set, other_header
\* is whatever the stack held.
BuildInit ==
    /\ PipeInit
    /\ hdrs \in HeaderInputs
    /\ garbage \in Garbage
    /\ \E u \in URIs :
          /\ request_line = RequestLine(u)
          /\ header_host = InjectedHost(u)
    /\ other_header = garbage
    /\ pos = 0
    /\ http_request = <<>>
    /\ bpc = "loop"

\* lines 118-135, one iteration
BuildLine ==
    /\ bpc = "loop"
    /\ ~LoopEnds(hdrs, pos + 1)
    /\ \E junk \in Junk :
          LET st == HeaderStep([host |-> header_host, other |-> other_header],
                               hdrs[pos + 1], junk)
          IN  /\ header_host' = st.host
              /\ other_header' = st.other
    /\ pos' = pos + 1
    /\ UNCHANGED <<hdrs, request_line, garbage, http_request, bpc, pipeVars>>

\* lines 118-121 and 137-139: the loop ends and the request is assembled
BuildEnd ==
    /\ bpc = "loop"
    /\ LoopEnds(hdrs, pos + 1)
    /\ http_request' = Assemble(request_line, header_host, other_header)
    /\ bpc' = "done"
    /\ UNCHANGED <<hdrs, request_line, pos, header_host, other_header,
                   garbage, pipeVars>>

BuildNext == BuildLine \/ BuildEnd

SpecBuild == BuildInit /\ [][BuildNext]_vars

(***************************************************************************)
(* The claims.                                                             *)
(***************************************************************************)
Range(f) == {f[i] : i \in DOMAIN f}

\* A worker that has read and validated its request line and has done
\* nothing else yet.
JustValidated(w) == pc[w] \in {"lookup", "ret"} /\ calls[w] = <<>>

\* The error code the specification asks for: 400 for a parse failure, else
\* 501 for a method other than GET, else 400 for a version other than 1.0
\* and 1.1, else none.
ExpectedError(r) ==
    IF r.state = "ERROR" THEN "400"
    ELSE IF LowerStr(r.method) # <<"g", "e", "t">> THEN "501"
    ELSE IF r.version \notin {V10, V11} THEN "400"
    ELSE "none"

\* C1: every request is answered by its validation in this priority: a
\* parse failure gets one 400 response, else a method other than GET one
\* 501 response, else an unsupported version one 400 response, and the
\* handler returns; a valid request gets no error response and goes on.
CE_C1 ==
    \A w \in Workers :
        JustValidated(w) =>
            IF ExpectedError(req[w]) = "none"
            THEN errOut[w] = <<>> /\ pc[w] = "lookup"
            ELSE /\ Len(errOut[w]) = 1
                 /\ errOut[w][1].errnum = ExpectedError(req[w])
                 /\ pc[w] = "ret"

\* C2: a worker that wrote an error response has returned from doit and has
\* made no call of read_cache, build_http_request, open_clientfd or
\* write_cache, and has no origin connection.
Thm_C2 ==
    \A w \in Workers :
        errOut[w] # <<>> =>
            /\ pc[w] = "ret"
            /\ calls[w] = <<>>
            /\ serverfd[w] = "none"

Wit_C2 ==
    \E w \in Workers :
        /\ pc[w] = "ret"
        /\ Len(errOut[w]) = 1
        /\ errOut[w][1].errnum = "501"
        /\ cache # <<>>

CE_C4 ==
    [][\A w \in Workers :
          (pc[w] = "rd_find" /\ pc'[w] # "rd_find"
              /\ fresh[uri[w]] \notin {NoBody, <<>>}) =>
                  (pc'[w] = "rd_write" /\ snap'[w] = fresh[uri[w]])]_vars

\* C8: on a miss, at every turn of the read loop and after it, the bytes
\* written to the client are the bytes read from the origin, in order,
\* whether or not the total has passed MAX_OBJECT_SIZE.
Thm_C8 ==
    \A w \in Workers :
        serverfd[w] \in {"open", "closed"} => toClient[w] = fromOrigin[w]

Wit_C8 ==
    \E w \in Workers :
        /\ pc[w] = "relay"
        /\ Len(fromOrigin[w]) > MAX_OBJECT_SIZE
        /\ Len(response[w]) < Len(fromOrigin[w])
        /\ toClient[w] = fromOrigin[w]

\* C9: after the origin closed, the response was handed to write_cache if
\* and only if its size is at most MAX_OBJECT_SIZE.
CE_C9 ==
    \A w \in Workers :
        (pc[w] = "ret" /\ readEnd[w] = "eof") =>
            ("write_cache" \in Range(calls[w])
                <=> Len(fromOrigin[w]) <= MAX_OBJECT_SIZE)

\* C10: a response is handed to write_cache only when the read loop ended
\* with the origin closing, never after a read error.
CE_C10 ==
    \A w \in Workers :
        "write_cache" \in Range(calls[w]) => readEnd[w] = "eof"

\* C11: a worker whose open_clientfd failed is at the return of doit having
\* called open_clientfd once and nothing after it, with nothing read from an
\* origin, nothing written to the client and no request sent; the failing
\* step leaves the cache as it was, and the only step the worker takes
\* afterwards closes the client descriptor and changes no cache entry.
Thm_C11 ==
    [][\A w \in Workers :
          /\ serverfd'[w] = "failed" =>
                /\ pc'[w] = "ret"
                /\ calls'[w] =
                       <<"read_cache", "build_http_request", "open_clientfd">>
                /\ fromOrigin'[w] = <<>>
                /\ toClient'[w] = <<>>
                /\ sent'[w] = <<>>
                /\ pc[w] # pc'[w] => cache' = cache
          /\ (serverfd[w] = "failed" /\ pc'[w] # pc[w]) =>
                /\ pc'[w] = "done"
                /\ fds[connfd[w]] = "open"
                /\ fds'[connfd[w]] = "closed"
                /\ cache' = cache]_vars

Wit_C11 ==
    \E w \in Workers :
        /\ serverfd[w] = "failed"
        /\ pc[w] = "ret"
        /\ cache # <<>>

\* C12: a worker that returned from doit has no open origin descriptor (one
\* it opened was closed, once) and its client descriptor is still open; a
\* worker that ended has closed its client descriptor; no descriptor is
\* ever closed twice or closed without being open; a client descriptor is
\* closed only by the step of its thread that follows doit's return; and a
\* started worker none of whose reads and writes blocks forever eventually
\* ends, with both closed.
Thm_C12 ==
    /\ [](\A w \in Workers :
            /\ serverfd[w] # "badclose"
            /\ fds[w] # "badclose"
            /\ pc[w] = "ret" =>
                  /\ serverfd[w] \in {"none", "failed", "closed"}
                  /\ fds[connfd[w]] = "open"
            /\ pc[w] = "done" =>
                  /\ serverfd[w] \notin {"open", "badclose"}
                  /\ fds[connfd[w]] = "closed")
    /\ [][\A k \in Workers :
            fds'[k] # fds[k] =>
                \/ fds[k] = "none" /\ fds'[k] = "open"
                \/ /\ fds[k] = "open" /\ fds'[k] = "closed"
                   /\ \E w \in Workers :
                         connfd[w] = k /\ pc[w] = "ret" /\ pc'[w] = "done"]_vars
    /\ \A w \in Workers :
            (pc[w] = "start") ~> (pc[w] = "done" \/ stuck[w])

Wit_C12 ==
    \E w \in Workers :
        /\ pc[w] = "done"
        /\ fds[connfd[w]] = "closed"
        /\ \E v \in Workers : pc[v] = "ret" /\ serverfd[v] = "closed"

\* C13: whatever the workers are doing, main can take its next loop turn
\* (while the model's bounds on connections and failures are not used up);
\* a turn in which accept fails changes no worker and no descriptor; a turn
\* in which accept succeeds opens one descriptor and starts exactly one
\* thread, for it; and a thread is started by nothing else, once.
Thm_C13 ==
    /\ [](/\ (\E w \in Workers : pc[w] = "idle") =>
                ENABLED (\E w \in Workers : Accept(w))
          /\ fails < MaxFails => ENABLED AcceptFail)
    /\ [][/\ fails' # fails =>
                (fails' = fails + 1 /\ pc' = pc /\ fds' = fds
                    /\ vargp' = vargp)
          /\ \A w \in Workers :
                /\ (pc[w] = "idle" /\ pc'[w] # "idle") =>
                      /\ pc'[w] = "start"
                      /\ fds[w] = "none" /\ fds'[w] = "open"
                      /\ vargp'[w] \in Cells /\ mem'[vargp'[w]] = w
                      /\ \A v \in Workers \ {w} :
                            pc'[v] = pc[v] /\ fds'[v] = fds[v]
                /\ fds'[w] = "open" /\ fds[w] # "open" => pc[w] = "idle"
                /\ pc'[w] = "idle" => pc[w] = "idle"]_vars

Wit_C13 ==
    /\ fails = MaxFails
    /\ \E w, v \in Workers :
          /\ w < v
          /\ pc[w] = "relay" /\ stuck[w]
          /\ pc[v] = "start"

\* C14: a worker stuck in a read or write holds no lock of the cache; while
\* workers are stuck main can still take its next turn; and every other
\* worker that has started and is not stuck itself eventually ends, its
\* lookups and inserts included.
Thm_C14 ==
    /\ [](\A v \in Workers : stuck[v] => (v \notin readers /\ writer # v))
    /\ []((\E v \in Workers : stuck[v]) =>
            /\ (\E w \in Workers : pc[w] = "idle") =>
                  ENABLED (\E w \in Workers : Accept(w))
            /\ fails < MaxFails => ENABLED AcceptFail)
    /\ \A v, w \in Workers :
          (v # w /\ stuck[v] /\ pc[w] \notin {"idle", "done"})
              ~> (pc[w] = "done" \/ stuck[w])

\* a worker stuck in read_cache's write of a hit while another is storing
Wit_C14 ==
    \E v, w \in Workers :
        /\ stuck[v] /\ pc[v] = "rd_write" /\ snap[v] # <<>>
        /\ pc[w] = "wr_store" /\ writer = w

(***************************************************************************)
(* The claims about the request sent to the origin (SpecBuild).            *)
(***************************************************************************)
RECURSIVE SplitLines(_, _)
SplitLines(s, cur) ==
    IF s = <<>> THEN (IF cur = <<>> THEN <<>> ELSE <<cur>>)
    ELSE IF Head(s) = "\n"
    THEN <<Append(cur, "\n")>> \o SplitLines(Tail(s), <<>>)
    ELSE SplitLines(Tail(s), Append(cur, Head(s)))

\* The lines of a text, each with its line end.
Lines(s) == SplitLines(s, <<>>)

RECURSIVE Concat(_)
Concat(ls) == IF ls = <<>> THEN <<>> ELSE Head(ls) \o Concat(Tail(ls))

\* The name of a header line: what comes before its colon, in lower case.
Name(line) ==
    LET colons == {i \in 1..Len(line) : line[i] = ":"}
    IN  IF colons = {} THEN <<>>
        ELSE LowerStr(SubSeq(line, 1,
                 (CHOOSE i \in colons : \A j \in colons : i <= j) - 1))

HostName == <<"h", "o", "s", "t">>

ReservedNames ==
    {HostName,
     <<"u", "s", "e", "r", "-", "a", "g", "e", "n", "t">>,
     <<"c", "o", "n", "n", "e", "c", "t", "i", "o", "n">>,
     <<"p", "r", "o", "x", "y", "-", "c", "o", "n", "n", "e", "c", "t", "i",
       "o", "n">>}

\* The header lines of the client: those before its blank line.
ClientHeaders ==
    LET blanks == {i \in 1..Len(hdrs) : hdrs[i] = CRLF}
        stop == IF blanks = {} THEN Len(hdrs) + 1
                ELSE CHOOSE i \in blanks : \A j \in blanks : i <= j
    IN  SubSeq(hdrs, 1, stop - 1)

BuildUri == CHOOSE u \in URIs : request_line = RequestLine(u)

HasHostName(line) == Name(line) = HostName

StartsWithHost(line) == LowerStr(Take(line, 4)) = HostName

NotReserved(line) == Name(line) \notin ReservedNames

\* The lines of the request after the five lines the proxy writes first,
\* without the blank line that ends the request.
ForwardedLines ==
    LET ls == Lines(http_request)
    IN  SubSeq(ls, 6, Len(ls) - 1)

CE_C6 ==
    bpc = "done" =>
        other_header = garbage \o Concat(SelectSeq(ClientHeaders, NotReserved))

\* C7: the request is the request line, one Host header, the fixed
\* User-Agent, Connection: close and Proxy-Connection: close headers, the
\* forwarded client headers, and a blank line, and each of the four
\* reserved names occurs on exactly one line.
CE_C7 ==
    bpc = "done" =>
        LET ls == Lines(http_request)
        IN  /\ Len(ls) >= 6
            /\ ls[1] = request_line
            /\ HasHostName(ls[2])
            /\ ls[3] = header_user_agent
            /\ ls[4] = header_connection
            /\ ls[5] = header_proxy_connection
            /\ ls[Len(ls)] = CRLF
            /\ \A i \in 6..(Len(ls) - 1) : ls[i] \in Range(ClientHeaders)
            /\ \A nm \in ReservedNames :
                  Cardinality({i \in 1..Len(ls) : Name(ls[i]) = nm}) = 1

\* C18: the hand-off of the descriptor from main to the thread is free of
\* races: under every interleaving of the accept loop with the start of the
\* threads, the thread created for a connection reads that connection's
\* descriptor and no other, works on it while it is open, and is the one
\* that closes it, once.
Thm_C18 ==
    /\ [](\A w \in Workers :
            /\ pc[w] \in {"idle", "start"} => connfd[w] = 0
            /\ pc[w] = "start" => vargp[w] \in allocated /\ mem[vargp[w]] = w
            /\ pc[w] \notin {"idle", "start"} => connfd[w] = w
            /\ pc[w] \notin {"idle", "done"} => fds[w] = "open"
            /\ pc[w] = "done" => fds[w] = "closed"
            /\ \A v \in Workers \ {w} :
                  (pc[w] = "start" /\ pc[v] = "start") => vargp[w] # vargp[v])
    /\ [][\A k \in Workers :
            fds'[k] # fds[k] =>
                \/ pc[k] = "idle" /\ pc'[k] = "start" /\ fds'[k] = "open"
                \/ /\ pc[k] = "ret" /\ pc'[k] = "done"
                   /\ connfd[k] = k
                   /\ fds[k] = "open" /\ fds'[k] = "closed"]_vars

\* main has accepted a later connection, and its thread has read its
\* argument, while the thread of an earlier connection has not yet read its
\* own.
Wit_C18 ==
    \E w \in Workers : \E v \in Workers :
        /\ w < v
        /\ pc[w] = "start"
        /\ pc[v] \notin {"idle", "start"}
        /\ connfd[v] = v
        /\ fails = MaxFails

\* C19: the accumulation of the response never overruns its buffer and
\* never caches a truncated copy: in every state the accumulator holds at
\* most MAX_OBJECT_SIZE bytes, which are the first bytes received from the
\* origin, and whenever write_cache is called after a read loop that ended
\* with the origin closing, the accumulator holds all the bytes received and
\* the size handed over is its length.
Thm_C19 ==
    \A w \in Workers :
        /\ Len(response[w]) <= MAX_OBJECT_SIZE
        /\ Len(response[w]) <= Len(fromOrigin[w])
        /\ response[w] = Take(fromOrigin[w], Len(response[w]))
        /\ response_size[w] = Len(fromOrigin[w])
        /\ (pc[w] \in {"wr_lock", "wr_evict", "wr_store"}
                /\ readEnd[w] = "eof") =>
              /\ response[w] = fromOrigin[w]
              /\ response_size[w] = Len(response[w])

\* write_cache is called after the origin closed, with an object that came
\* in more than one chunk, while another worker's response has outgrown its
\* accumulator.
Wit_C19 ==
    \E w \in Workers : \E v \in Workers \ {w} :
        /\ pc[w] = "wr_lock"
        /\ readEnd[w] = "eof"
        /\ Len(response[w]) = MAX_OBJECT_SIZE - 1
        /\ pc[v] = "relay"
        /\ response_size[v] >= MAX_OBJECT_SIZE
        /\ Len(response[v]) < response_size[v]

\* C20: every parser made by doit (parser_new) has been released
\* (parser_free) when doit has returned, whichever way it returned: 400,
\* 501, unsupported version, cache hit, failed connection to the origin, or
\* a completed relay.
CE_C20 ==
    \A w \in Workers : pc[w] \in {"ret", "done"} => ~parserLive[w]

(***************************************************************************)
(* Claims about the cache alone (SpecCache).                               *)
(***************************************************************************)

\* C15: after any sequence and interleaving of lookups and inserts by the
\* workers, the sizes of all cache entries sum to at most MAX_CACHE_SIZE and
\* every stored entry has size at most MAX_OBJECT_SIZE (and holds no more
\* bytes than its size).
Thm_C15 ==
    /\ TotalSize(cache) <= MAX_CACHE_SIZE
    /\ \A i \in 1..Len(cache) :
          /\ cache[i].size <= MAX_OBJECT_SIZE
          /\ Len(cache[i].body) <= cache[i].size

\* An insert that needed room has evicted an entry and linked its own next
\* to one that stayed.
Wit_C15 ==
    \E w \in Workers :
        /\ pc[w] = "wr_store"
        /\ victims # {}
        /\ Len(cache) >= 2
        /\ uri[w] \in Keys(cache)

\* An entry whose bytes have all been copied in.
Complete(e) == Len(e.body) = e.size

\* C16: cache access follows a readers-writer discipline under every
\* interleaving: the thread inside an insert (eviction pass included) is the
\* only thread inside the cache, several lookups may be inside together, an
\* entry is incomplete only while the insert that writes it is inside, every
\* entry was put there by one insert with that insert's key, bytes and size,
\* and a lookup that reports a hit delivers the complete body of the entry of
\* its key.
Thm_C16 ==
    /\ [](/\ \A w \in Workers :
              /\ writer = w <=> pc[w] \in {"wr_evict", "wr_store"}
              /\ w \in readers <=> pc[w] = "rd_find"
          /\ writer # 0 => readers = {}
          /\ \A i \in 1..Len(cache) :
                ~Complete(cache[i]) =>
                    /\ writer # 0
                    /\ pc[writer] = "wr_store"
                    /\ cache[i].key = uri[writer])
    /\ [][/\ \A e \in Range(cache') \ Range(cache) :
               \E w \in Workers :
                  /\ writer = w
                  /\ \/ pc[w] = "wr_evict" /\ pc'[w] = "wr_store"
                        /\ e = Entry(uri[w], <<>>, response_size[w])
                     \/ pc[w] = "wr_store" /\ pc'[w] = "ret"
                        /\ e = Entry(uri[w], response[w], response_size[w])
                        /\ Complete(e)
          /\ \A w \in Workers :
                (pc[w] = "rd_find" /\ pc'[w] = "rd_write") =>
                    \E i \in 1..Len(cache) :
                        /\ cache[i].key = uri[w]
                        /\ Complete(cache[i])
                        /\ snap'[w] = cache[i].body
                        /\ writer = 0]_vars

\* Two lookups are inside the cache together, and one of them will hit.
Wit_C16 ==
    /\ Cardinality(readers) >= 2
    /\ \E w \in readers : uri[w] \in Keys(cache)

\* The place of a key in the order of last accesses (oldest first).
Age(rec, u) == CHOOSE i \in 1..Len(rec) : rec[i] = u

SizeOf(c, u) == c[Find(c, u)].size

\* C17: LRU eviction.  With recency kept as the order of last accesses
\* (an insert or a lookup hit makes its key the newest), the eviction pass
\* of an insert evicts only entries that are older than every entry it
\* keeps, and evicts none that it did not need to: without the newest of
\* the evicted entries the new object would not have fitted.
Thm_C17 ==
    /\ [](writer = 0 =>
            /\ Range(recency) = Keys(cache)
            /\ Len(recency) = Len(cache))
    /\ [][\A w \in Workers :
            (pc[w] = "wr_evict" /\ pc'[w] = "wr_store") =>
                LET gone == Evicted(cache, cache', uri[w])
                    kept == Keys(cache') \ {uri[w]}
                IN  /\ victims' = gone
                    /\ kept \subseteq Keys(cache)
                    /\ \A e \in gone : \A k \in kept :
                          Age(recency, e) < Age(recency, k)
                    /\ \A e \in gone :
                          (\A f \in gone : Age(recency, f) <= Age(recency, e))
                            => TotalSize(cache') + SizeOf(cache, e)
                                   > MAX_CACHE_SIZE]_vars

\* An insert has evicted an entry and kept another, and the kept one is the
\* key of the hit that the other thread's last lookup reported.
Wit_C17 ==
    \E w \in Workers : \E v \in Workers \ {w} :
        /\ pc[w] = "wr_store"
        /\ victims # {}
        /\ pc[v] = "ret"
        /\ n[v] > 0
        /\ uri[v] \in Keys(cache) \ {uri[w]}

=============================================================================
